---- MODULE Spec2Model ----
(***************************************************************************)
(* Citation-graph relationship analyzer                                    *)
(* (app/services/relationship_analyzer.py, class RelationshipAnalyzer).    *)
(*                                                                         *)
(* One analyzer instance holds a networkx DiGraph and the flag             *)
(* _graph_built.  Its three read operations build the graph lazily from    *)
(* three awaited source fetches (laws, cases, references) and then compute *)
(* their result synchronously.  The entity and reference sources are       *)
(* external collaborators: what they return is an input of the fetch       *)
(* steps, and a fetch may raise.  The law and case records are taken to    *)
(* carry the attributes the analyzer reads from them.                      *)
(*                                                                         *)
(* Node keys: the strings "law_<id>" and "case_<id>" are modelled as the   *)
(* pairs <<"law", id>> and <<"case", id>>; the two prefixes are not        *)
(* prefixes of one another, so the composition is injective and            *)
(* startswith("law_") is the test on the first component.                  *)
(* Scores: floats are fixed-point integers in units of 1/Scale.            *)
(***************************************************************************)
EXTENDS Integers, Sequences, FiniteSets

\* ---------------------------------------------------------------- inputs

LawIds == {"L1", "L2"}
CaseIds == {"C1", "C2"}
\* None, and the empty string: both are falsy in `if ref.referenced_law_id`.
NoId == "none"
NoCtx == "none"
Contexts == {NoCtx}

\* Longest reference list a source returns.
MaxRefs == 3

Depths == {1, 2}
Limits == {1, 2}

AllTasks == {"t1", "t2"}
\* The tasks that call the analyzer one after another.
SeqTasks == {"t1"}

SeqsUpTo(S, n) == UNION {[1..k -> S] : k \in 0..n}

DistinctSeqs(S) ==
    {s \in SeqsUpTo(S, Cardinality(S)) :
        \A i, j \in 1..Len(s) : i # j => s[i] # s[j]}

\* What get_all_laws / get_all_cases may return: lists of records with
\* distinct ids, in any order (a record is modelled by its id).
LawLists == DistinctSeqs(LawIds)
CaseLists == DistinctSeqs(CaseIds)

\* CaseReference records: the citing case, an optional law id, an optional
\* case id.  The cited case, when present, is the decision C1, and no
\* decision cites itself.
RefRecords ==
    {r \in [case_id : CaseIds,
            referenced_law_id : LawIds \cup {NoId},
            referenced_case_id : {NoId, "C1"},
            context : Contexts] :
        r.referenced_case_id # r.case_id}

IdRank(id) == CASE id = NoId -> 0
                [] id \in {"L1", "C1"} -> 1
                [] id \in {"L2", "C2"} -> 2

RefRank(r) ==
    9 * IdRank(r.case_id) + 3 * IdRank(r.referenced_law_id)
    + IdRank(r.referenced_case_id)

\* What get_all_references may return: up to MaxRefs records, repeats
\* included, listed in the order of (case_id, referenced_law_id,
\* referenced_case_id).
RefLists ==
    {s \in SeqsUpTo(RefRecords, MaxRefs) :
        \A i \in 1..Len(s) - 1 : RefRank(s[i]) <= RefRank(s[i + 1])}

\* What the conversation service is called with and what the clock shows.
UserIds == {"u1"}
MaxClock == 1
Seconds == 0..MaxClock
Questions == {"q1", "q2"}
\* What generate_answer returns for a question.
AnswerTo(question) == IF question = "q1" THEN "a1" ELSE "a2"
MaxAsks == 2

\* f"{user_id}_{int(datetime.now().timestamp())}": the second is written in
\* digits only, so the string determines both parts.
ConversationId(user_id, second) == <<user_id, second>>
ConversationIds == {ConversationId(u, n) : u \in UserIds, n \in Seconds}

\* ----------------------------------------------------------------- graph

LawNode(id) == <<"law", id>>
CaseNode(id) == <<"case", id>>
IsLawNode(n) == n[1] = "law"

\* nx.DiGraph(): nodes in insertion order, the nodes that carry the
\* attributes type/name/data, and the edges (one per ordered pair).
EmptyGraph == [nodes |-> <<>>, typed |-> {}, edges |-> {}]

NodeSet(g) == {g.nodes[i] : i \in 1..Len(g.nodes)}
HasNode(g, n) == n \in NodeSet(g)

\* add_node(key, type=.., name=.., data=..)
AddNode(g, n) ==
    [g EXCEPT !.nodes = IF HasNode(g, n) THEN @ ELSE Append(@, n),
              !.typed = @ \cup {n}]

\* A node that add_edge creates for an endpoint it does not know: a node
\* without attributes.
Touch(g, n) == IF HasNode(g, n) THEN g ELSE [g EXCEPT !.nodes = Append(@, n)]

\* add_edge(u, v, type=.., context=..): endpoints are created when absent,
\* and a second add of the same pair overwrites the attributes.
AddEdge(g, u, v, type, ctx) ==
    LET g1 == Touch(Touch(g, u), v)
    IN  [g1 EXCEPT !.edges =
            {e \in @ : ~(e.src = u /\ e.tgt = v)}
            \cup {[src |-> u, tgt |-> v, type |-> type, context |-> ctx]}]

Predecessors(g, n) == {e.src : e \in {x \in g.edges : x.tgt = n}}
Successors(g, n) == {e.tgt : e \in {x \in g.edges : x.src = n}}

AddReferenceReversed(g, ref) ==
    LET g1 == IF ref.referenced_law_id # NoId
              THEN AddEdge(g, LawNode(ref.referenced_law_id),
                           CaseNode(ref.case_id), "cites_law", ref.context)
              ELSE g
    IN  IF ref.referenced_case_id # NoId
        THEN AddEdge(g1, CaseNode(ref.case_id),
                     CaseNode(ref.referenced_case_id),
                     "cites_case", ref.context)
        ELSE g1

AddReferenceElif(g, ref) ==
    IF ref.referenced_law_id # NoId
    THEN AddEdge(g, CaseNode(ref.case_id), LawNode(ref.referenced_law_id),
                 "cites_law", ref.context)
    ELSE IF ref.referenced_case_id # NoId
    THEN AddEdge(g, CaseNode(ref.case_id), CaseNode(ref.referenced_case_id),
                 "cites_case", ref.context)
    ELSE g

\* The body of the loop `for ref in references`.
AddReference(g, ref) ==
    LET g1 == IF ref.referenced_law_id # NoId
              THEN AddEdge(g, CaseNode(ref.case_id),
                           LawNode(ref.referenced_law_id),
                           "cites_law", ref.context)
              ELSE g
    IN  IF ref.referenced_case_id # NoId
        THEN AddEdge(g1, CaseNode(ref.case_id),
                     CaseNode(ref.referenced_case_id),
                     "cites_case", ref.context)
        ELSE g1

\* build_citation_graph after its three fetches: the three loops, run on
\* the analyzer's graph as it is (the graph is never cleared).
PopulateGraph(g, laws, cases, refs) ==
    LET addLaws[i \in 0..Len(laws)] ==
            IF i = 0 THEN g ELSE AddNode(addLaws[i - 1], LawNode(laws[i]))
        addCases[i \in 0..Len(cases)] ==
            IF i = 0 THEN addLaws[Len(laws)]
            ELSE AddNode(addCases[i - 1], CaseNode(cases[i]))
        addRefs[i \in 0..Len(refs)] ==
            IF i = 0 THEN addCases[Len(cases)]
            ELSE AddReference(addRefs[i - 1], refs[i])
    IN  addRefs[Len(refs)]

\* ------------------------------------------------------------- helpers

SumSeq(s, F(_)) ==
    LET acc[i \in 0..Len(s)] == IF i = 0 THEN 0 ELSE acc[i - 1] + F(s[i])
    IN  acc[Len(s)]

Abs(x) == IF x < 0 THEN -x ELSE x

\* list.sort(key=.., reverse=True) and sorted(.., reverse=True): a stable
\* sort, largest key first, equal keys in their original order.
SortDescending(s, Key(_)) ==
    LET Insert(acc, e) ==
            LET p == Cardinality({i \in 1..Len(acc) : Key(acc[i]) >= Key(e)})
            IN  SubSeq(acc, 1, p) \o <<e>> \o SubSeq(acc, p + 1, Len(acc))
        sorted[i \in 0..Len(s)] ==
            IF i = 0 THEN <<>> ELSE Insert(sorted[i - 1], s[i])
    IN  sorted[Len(s)]

\* ------------------------------------------------------------ PageRank

\* 1.0 in fixed point.
Scale == 1000000
\* nx.pagerank defaults: alpha = 0.85, max_iter = 100, tol = 1.0e-6.
AlphaPct == 85
PRMaxIter == 100
PRTol == 1

OutDegree(g, m) == Cardinality(Successors(g, m))

\* One power iteration: x = alpha * (x A + sum(x[dangling]) / N) + (1 - alpha) / N
PRStep(g, x) ==
    LET N == Len(g.nodes)
        dsum == SumSeq(g.nodes,
                       LAMBDA m : IF OutDegree(g, m) = 0 THEN x[m] ELSE 0)
        inflow(n) ==
            SumSeq(g.nodes,
                   LAMBDA m : IF n \in Successors(g, m)
                              THEN x[m] \div OutDegree(g, m) ELSE 0)
    IN  [n \in NodeSet(g) |->
            (AlphaPct * (inflow(n) + dsum \div N)
             + (100 - AlphaPct) * (Scale \div N)) \div 100]

RECURSIVE PRIterate(_, _, _)
PRIterate(g, x, k) ==
    IF k = PRMaxIter THEN [ok |-> FALSE, rank |-> x]
    ELSE LET y == PRStep(g, x)
             err == SumSeq(g.nodes, LAMBDA n : Abs(y[n] - x[n]))
         IN  IF err < Len(g.nodes) * PRTol THEN [ok |-> TRUE, rank |-> y]
             ELSE PRIterate(g, y, k + 1)

\* nx.pagerank(self.graph): the ranks, or ok = FALSE for
\* PowerIterationFailedConvergence.
PageRank(g) ==
    PRIterate(g, [n \in NodeSet(g) |-> Scale \div Len(g.nodes)], 0)

\* --------------------------------------------------------- operations

Raise(e) == [kind |-> "raise", exc |-> e]

ScoreWithoutDirectBranch(g, case_node, is_direct, prRaises) ==
    IF prRaises THEN Scale \div 2
    ELSE LET pr == PageRank(g)
         IN  IF pr.ok THEN pr.rank[case_node] ELSE Scale \div 2

ScoreFallbackOne(g, case_node, is_direct, prRaises) ==
    IF is_direct THEN Scale
    ELSE IF prRaises THEN Scale
    ELSE LET pr == PageRank(g)
         IN  IF pr.ok THEN pr.rank[case_node] ELSE Scale

ScoreFallbackZero(g, case_node, is_direct, prRaises) ==
    IF is_direct THEN Scale
    ELSE IF prRaises THEN 0
    ELSE LET pr == PageRank(g)
         IN  IF pr.ok THEN pr.rank[case_node] ELSE 0

\* _calculate_relevance_score; prRaises: nx.pagerank raises for a reason
\* outside the graph (any Exception is caught).
CalculateRelevanceScore(g, case_node, is_direct, prRaises) ==
    IF is_direct THEN Scale
    ELSE IF prRaises THEN Scale \div 2
    ELSE LET pr == PageRank(g)
         IN  IF pr.ok THEN pr.rank[case_node] ELSE Scale \div 2

\* direct_cases = list(self.graph.predecessors(law_node))
DirectCases(g, law_node) == Predecessors(g, law_node)

NoIndirectCases(g, law_node) == {}

\* The loop that fills indirect_cases.
IndirectCases(g, law_node) ==
    UNION {UNION {Predecessors(g, other_law) :
                    other_law \in {n \in Successors(g, case_node) : IsLawNode(n)}} :
           case_node \in DirectCases(g, law_node)}

Unsorted(results) == results

\* results.sort(key=lambda x: x["relevance_score"], reverse=True)
SortByScore(results) ==
    SortDescending(results, LAMBDA r : r.relevance_score)

\* find_related_cases from `direct_cases = ...` on: law_node is in the graph.
RelatedResults(g, law_id, order, prRaises) ==
    LET law_node == LawNode(law_id)
        direct == DirectCases(g, law_node)
        all_cases == direct \cup IndirectCases(g, law_node)
        iter == SelectSeq(order, LAMBDA n : n \in all_cases)
        results ==
            [i \in 1..Len(iter) |->
                [case_id |-> iter[i][2],
                 relevance_score |->
                    CalculateRelevanceScore(g, iter[i], iter[i] \in direct, prRaises),
                 is_direct_citation |-> iter[i] \in direct]]
    IN  IF \E n \in all_cases : n \notin g.typed THEN Raise("KeyError")
        ELSE [kind |-> "related", list |-> SortByScore(results)]

FindRelatedCasesUnguarded(g, law_id, order, prRaises) ==
    IF ~HasNode(g, LawNode(law_id)) THEN Raise("NetworkXError")
    ELSE RelatedResults(g, law_id, order, prRaises)

\* find_related_cases once the graph is built.  order: the iteration order
\* of a Python set of node keys in this process.
FindRelatedCases(g, law_id, order, prRaises) ==
    IF ~HasNode(g, LawNode(law_id)) THEN [kind |-> "related", list |-> <<>>]
    ELSE RelatedResults(g, law_id, order, prRaises)

\* citation_count = len(list(self.graph.predecessors(node)))
CitationCount(g, node) == Cardinality(Predecessors(g, node))

Reverse(s) == [i \in 1..Len(s) |-> s[Len(s) + 1 - i]]

SortAscendingReversed(law_citations) ==
    SortDescending(Reverse(law_citations), LAMBDA r : r.citation_count)

\* sorted(law_citations.values(), key=.., reverse=True)
SortByCitationCount(law_citations) ==
    SortDescending(law_citations, LAMBDA r : r.citation_count)

NoTruncate(sorted_laws, limit) == sorted_laws

\* sorted_laws[:limit], limit >= 1
Truncate(sorted_laws, limit) ==
    SubSeq(sorted_laws, 1,
           IF limit < Len(sorted_laws) THEN limit ELSE Len(sorted_laws))

GetMostCitedLawsCitedOnly(g, limit) ==
    LET law_nodes ==
            SelectSeq(g.nodes,
                      LAMBDA n : IsLawNode(n) /\ Predecessors(g, n) # {})
        law_citations ==
            [i \in 1..Len(law_nodes) |->
                [law_id |-> law_nodes[i][2],
                 citation_count |-> CitationCount(g, law_nodes[i])]]
    IN  IF \E i \in 1..Len(law_nodes) : law_nodes[i] \notin g.typed
        THEN Raise("KeyError")
        ELSE [kind |-> "cited",
              list |-> Truncate(SortByCitationCount(law_citations), limit)]

\* get_most_cited_laws once the graph is built.
GetMostCitedLaws(g, limit) ==
    LET law_nodes == SelectSeq(g.nodes, IsLawNode)
        law_citations ==
            [i \in 1..Len(law_nodes) |->
                [law_id |-> law_nodes[i][2],
                 citation_count |-> CitationCount(g, law_nodes[i])]]
    IN  IF \E i \in 1..Len(law_nodes) : law_nodes[i] \notin g.typed
        THEN Raise("KeyError")
        ELSE [kind |-> "cited",
              list |-> Truncate(SortByCitationCount(law_citations), limit)]

\* nx.ego_graph(G, n, radius) with its defaults (undirected=False): the
\* nodes at distance <= radius from n along the edges' direction.
EgoNodes(g, center, radius) ==
    LET reach[k \in 0..radius] ==
            IF k = 0 THEN {center}
            ELSE reach[k - 1] \cup UNION {Successors(g, n) : n \in reach[k - 1]}
    IN  reach[radius]

EgoViewCenterByType(g, center_node, depth) ==
    LET sub == EgoNodes(g, center_node, depth)
        sub_nodes == SelectSeq(g.nodes, LAMBDA n : n \in sub)
        nodes == [i \in 1..Len(sub_nodes) |->
                    [id |-> sub_nodes[i], type |-> sub_nodes[i][1],
                     is_center |-> sub_nodes[i][1] = center_node[1]]]
        edges == {[source |-> e.src, target |-> e.tgt,
                   type |-> e.type, context |-> e.context] :
                  e \in {x \in g.edges : x.src \in sub /\ x.tgt \in sub}}
    IN  IF \E n \in sub : n \notin g.typed THEN Raise("KeyError")
        ELSE [kind |-> "ego", nodes |-> nodes, edges |-> edges,
              center |-> center_node, error |-> FALSE]

EgoViewTraversedEdges(g, center_node, depth) ==
    LET sub == EgoNodes(g, center_node, depth)
        inner == EgoNodes(g, center_node, depth - 1)
        sub_nodes == SelectSeq(g.nodes, LAMBDA n : n \in sub)
        nodes == [i \in 1..Len(sub_nodes) |->
                    [id |-> sub_nodes[i], type |-> sub_nodes[i][1],
                     is_center |-> sub_nodes[i] = center_node]]
        edges == {[source |-> e.src, target |-> e.tgt,
                   type |-> e.type, context |-> e.context] :
                  e \in {x \in g.edges : x.src \in inner /\ x.tgt \in sub}}
    IN  IF \E n \in sub : n \notin g.typed THEN Raise("KeyError")
        ELSE [kind |-> "ego", nodes |-> nodes, edges |-> edges,
              center |-> center_node, error |-> FALSE]

\* visualize_relationships from `subgraph = nx.ego_graph(..)` on.
EgoView(g, center_node, depth) ==
    LET sub == EgoNodes(g, center_node, depth)
        sub_nodes == SelectSeq(g.nodes, LAMBDA n : n \in sub)
        nodes == [i \in 1..Len(sub_nodes) |->
                    [id |-> sub_nodes[i], type |-> sub_nodes[i][1],
                     is_center |-> sub_nodes[i] = center_node]]
        edges == {[source |-> e.src, target |-> e.tgt,
                   type |-> e.type, context |-> e.context] :
                  e \in {x \in g.edges : x.src \in sub /\ x.tgt \in sub}}
    IN  IF \E n \in sub : n \notin g.typed THEN Raise("KeyError")
        ELSE [kind |-> "ego", nodes |-> nodes, edges |-> edges,
              center |-> center_node, error |-> FALSE]

VisualizeWithoutMarker(g, center_type, center_id, depth) ==
    IF ~HasNode(g, <<center_type, center_id>>)
    THEN [kind |-> "ego", nodes |-> <<>>, edges |-> {},
          center |-> <<center_type, center_id>>, error |-> FALSE]
    ELSE EgoView(g, <<center_type, center_id>>, depth)

\* visualize_relationships once the graph is built.
VisualizeRelationships(g, center_type, center_id, depth) ==
    IF ~HasNode(g, <<center_type, center_id>>)
    THEN [kind |-> "ego", nodes |-> <<>>, edges |-> {},
          center |-> <<center_type, center_id>>, error |-> TRUE]
    ELSE EgoView(g, <<center_type, center_id>>, depth)

\* ------------------------------------------------------ the analyzer

VARIABLES
    graph,      \* self.graph
    built,      \* self._graph_built
    hashOrder,  \* iteration order of a set of node keys in this process
                \* (<<>> until a set is first iterated)
    failed,     \* history: the latest fetch on this analyzer raised
    pc,         \* per task: "idle", awaiting "laws" / "cases" / "refs" (the
                \* analyzer) or "search" / "generate" (ask_question), "done"
    call,       \* per task: the operation it is in, with its arguments
    tLaws,      \* per task: build_citation_graph's local `laws`
    tCases,     \* per task: its local `cases`
    tRefs,      \* per task: its local `references`
    fetched,    \* per task: the fetches its operation has completed
    res,        \* per task: what the operation returned or raised
    conversations,  \* ConversationService.conversations
    clock,      \* int(datetime.now().timestamp())
    detached,   \* per task: the list its local `history` names is no longer
                \* the one the map holds under its conversation id
    asked       \* history: the conversation id, the question and the answer
                \* of each ask_question call that returned, in that order

\* The state of the conversation service.
conversationVars == <<conversations, clock, detached, asked>>

vars ==
    <<graph, built, hashOrder, failed, pc, call, tLaws, tCases, tRefs, fetched, res,
      conversations, clock, detached, asked>>

NoCall == [op |-> "none"]
NoRes == [kind |-> "none"]

FindCalls == {[op |-> "find", law_id |-> l] : l \in LawIds}
CitedCalls == {[op |-> "cited", limit |-> k] : k \in Limits}
EgoCalls ==
    {[op |-> "ego", center_type |-> n[1], center_id |-> n[2], depth |-> d] :
        n \in {LawNode(l) : l \in LawIds} \cup {CaseNode(c) : c \in CaseIds},
        d \in Depths}
BuildCall == [op |-> "build"]
ReadCalls == FindCalls \cup CitedCalls \cup EgoCalls

SetOrders(S) ==
    {s \in [1..Cardinality(S) -> S] :
        \A i, j \in 1..Cardinality(S) : i # j => s[i] # s[j]}

\* What operation c returns on graph g, its lazy build (if any) done.
Compute(g, c, order, prRaises) ==
    CASE c.op = "find" -> FindRelatedCases(g, c.law_id, order, prRaises)
      [] c.op = "cited" -> GetMostCitedLaws(g, c.limit)
      [] c.op = "ego" ->
            VisualizeRelationships(g, c.center_type, c.center_id, c.depth)
      [] c.op = "build" -> [kind |-> "graph", graph |-> g]

\* Whether nx.pagerank may raise is an input of a find call only.
PrOutcomes(c) == IF c.op = "find" THEN BOOLEAN ELSE {FALSE}

AnySetOrder(c) ==
    IF c.op = "find" THEN SetOrders({CaseNode(id) : id \in CaseIds})
    ELSE {hashOrder}

\* The set iteration orders operation c can meet: string hashes are fixed
\* per process, so the order seen first is the order seen ever after.
SetOrdersFor(c) ==
    IF c.op = "find"
    THEN {o \in SetOrders({CaseNode(id) : id \in CaseIds}) :
            hashOrder \in {<<>>, o}}
    ELSE {hashOrder}

\* __init__
Init ==
    /\ graph = EmptyGraph
    /\ built = FALSE
    /\ hashOrder = <<>>
    /\ failed = FALSE
    /\ pc = [t \in AllTasks |-> "idle"]
    /\ call = [t \in AllTasks |-> NoCall]
    /\ tLaws = [t \in AllTasks |-> <<>>]
    /\ tCases = [t \in AllTasks |-> <<>>]
    /\ tRefs = [t \in AllTasks |-> <<>>]
    /\ fetched = [t \in AllTasks |-> 0]
    /\ res = [t \in AllTasks |-> NoRes]
    /\ conversations = <<>>
    /\ clock = 0
    /\ detached = [t \in AllTasks |-> FALSE]
    /\ asked = <<>>

\* The node a read operation looks up first, for the operations that have one.
QueriedNodes(c) ==
    CASE c.op = "find" -> {LawNode(c.law_id)}
      [] c.op = "ego" -> {<<c.center_type, c.center_id>>}
      [] OTHER -> {}

CallBuiltTouchingQueried(t, c) ==
    /\ pc[t] = "idle"
    /\ built
    /\ graph' = IF QueriedNodes(c) = {} THEN graph
                ELSE Touch(graph, CHOOSE n \in QueriedNodes(c) : TRUE)
    /\ \E prRaises \in PrOutcomes(c), order \in SetOrdersFor(c) :
            /\ hashOrder' = order
            /\ res' = [res EXCEPT ![t] = Compute(graph', c, order, prRaises)]
    /\ pc' = [pc EXCEPT ![t] = "done"]
    /\ call' = [call EXCEPT ![t] = c]
    /\ UNCHANGED <<built, failed, tLaws, tCases, tRefs, fetched>>
    /\ UNCHANGED conversationVars

\* A read operation on a built graph: no await, the whole handler is one step.
CallBuilt(t, c) ==
    /\ pc[t] = "idle"
    /\ built
    /\ \E prRaises \in PrOutcomes(c), order \in SetOrdersFor(c) :
            /\ hashOrder' = order
            /\ res' = [res EXCEPT ![t] = Compute(graph, c, order, prRaises)]
    /\ pc' = [pc EXCEPT ![t] = "done"]
    /\ call' = [call EXCEPT ![t] = c]
    /\ UNCHANGED <<graph, built, failed, tLaws, tCases, tRefs, fetched>>
    /\ UNCHANGED conversationVars

CallUnguarded(t, c) ==
    /\ pc[t] = "idle"
    /\ pc' = [pc EXCEPT ![t] = "laws"]
    /\ call' = [call EXCEPT ![t] = c]
    /\ UNCHANGED <<graph, built, hashOrder, failed, tLaws, tCases, tRefs, fetched, res>>
    /\ UNCHANGED conversationVars

\* A read operation that finds _graph_built false, or build_citation_graph
\* called on a fresh analyzer (get_graph_stats): up to `await _get_all_laws()`.
CallUnbuilt(t, c) ==
    /\ pc[t] = "idle"
    /\ ~built
    /\ pc' = [pc EXCEPT ![t] = "laws"]
    /\ call' = [call EXCEPT ![t] = c]
    /\ UNCHANGED <<graph, built, hashOrder, failed, tLaws, tCases, tRefs, fetched, res>>
    /\ UNCHANGED conversationVars

\* `laws = await self._get_all_laws()` returns.
FetchLaws(t, laws) ==
    /\ pc[t] = "laws"
    /\ tLaws' = [tLaws EXCEPT ![t] = laws]
    /\ pc' = [pc EXCEPT ![t] = "cases"]
    /\ fetched' = [fetched EXCEPT ![t] = 1]
    /\ failed' = FALSE
    /\ UNCHANGED <<graph, built, hashOrder, call, tCases, tRefs, res>>
    /\ UNCHANGED conversationVars

FetchCasesPublishing(t, cases) ==
    /\ pc[t] = "cases"
    /\ tCases' = [tCases EXCEPT ![t] = cases]
    /\ pc' = [pc EXCEPT ![t] = "refs"]
    /\ fetched' = [fetched EXCEPT ![t] = 2]
    /\ failed' = FALSE
    /\ graph' = PopulateGraph(graph, tLaws[t], cases, <<>>)
    /\ built' = TRUE
    /\ UNCHANGED <<hashOrder, call, tLaws, tRefs, res>>
    /\ UNCHANGED conversationVars

\* `cases = await self._get_all_cases()` returns.
FetchCases(t, cases) ==
    /\ pc[t] = "cases"
    /\ tCases' = [tCases EXCEPT ![t] = cases]
    /\ pc' = [pc EXCEPT ![t] = "refs"]
    /\ fetched' = [fetched EXCEPT ![t] = 2]
    /\ failed' = FALSE
    /\ UNCHANGED <<graph, built, hashOrder, call, tLaws, tRefs, res>>
    /\ UNCHANGED conversationVars

\* `references = await self._get_all_references()` returns; the rest of
\* build_citation_graph and of the operation that called it run without
\* another await.
FetchRefs(t, refs) ==
    /\ pc[t] = "refs"
    /\ tRefs' = [tRefs EXCEPT ![t] = refs]
    /\ fetched' = [fetched EXCEPT ![t] = 3]
    /\ graph' = PopulateGraph(graph, tLaws[t], tCases[t], refs)
    /\ built' = TRUE
    /\ failed' = FALSE
    /\ \E prRaises \in PrOutcomes(call[t]), order \in SetOrdersFor(call[t]) :
            /\ hashOrder' = order
            /\ res' = [res EXCEPT ![t] =
                        Compute(graph', call[t], order, prRaises)]
    /\ pc' = [pc EXCEPT ![t] = "done"]
    /\ UNCHANGED <<call, tLaws, tCases>>
    /\ UNCHANGED conversationVars

FetchFailsFlagSet(t) ==
    /\ pc[t] \in {"laws", "cases", "refs"}
    /\ res' = [res EXCEPT ![t] = Raise("SourceError")]
    /\ pc' = [pc EXCEPT ![t] = "done"]
    /\ built' = TRUE
    /\ failed' = TRUE
    /\ UNCHANGED <<graph, hashOrder, call, tLaws, tCases, tRefs, fetched>>
    /\ UNCHANGED conversationVars

\* One of the three awaited fetches raises: nothing catches it.
FetchFails(t) ==
    /\ pc[t] \in {"laws", "cases", "refs"}
    /\ res' = [res EXCEPT ![t] = Raise("SourceError")]
    /\ pc' = [pc EXCEPT ![t] = "done"]
    /\ failed' = TRUE
    /\ UNCHANGED <<graph, built, hashOrder, call, tLaws, tCases, tRefs, fetched>>
    /\ UNCHANGED conversationVars

\* The caller has the result; the operation's locals are gone.
Return(t) ==
    /\ pc[t] = "done"
    /\ pc' = [pc EXCEPT ![t] = "idle"]
    /\ call' = [call EXCEPT ![t] = NoCall]
    /\ res' = [res EXCEPT ![t] = NoRes]
    /\ tLaws' = [tLaws EXCEPT ![t] = <<>>]
    /\ tCases' = [tCases EXCEPT ![t] = <<>>]
    /\ tRefs' = [tRefs EXCEPT ![t] = <<>>]
    /\ fetched' = [fetched EXCEPT ![t] = 0]
    /\ UNCHANGED <<graph, built, hashOrder, failed>>
    /\ UNCHANGED conversationVars

Next ==
    \/ \E t \in SeqTasks, c \in ReadCalls : CallBuilt(t, c)
    \/ \E t \in SeqTasks, c \in ReadCalls \cup {BuildCall} : CallUnbuilt(t, c)
    \/ \E t \in SeqTasks, laws \in LawLists : FetchLaws(t, laws)
    \/ \E t \in SeqTasks, cases \in CaseLists : FetchCases(t, cases)
    \/ \E t \in SeqTasks, refs \in RefLists : FetchRefs(t, refs)
    \/ \E t \in SeqTasks : FetchFails(t)
    \/ \E t \in SeqTasks : Return(t)

Spec == Init /\ [][Next]_vars

\* ------------------------------------------- building more than once

\* build_citation_graph is a public coroutine: a caller that holds the
\* analyzer may await it again when the graph is already built.  Up to
\* `await _get_all_laws()`.
CallRebuild(t) ==
    /\ pc[t] = "idle"
    /\ built
    /\ pc' = [pc EXCEPT ![t] = "laws"]
    /\ call' = [call EXCEPT ![t] = BuildCall]
    /\ UNCHANGED <<graph, built, hashOrder, failed, tLaws, tCases, tRefs, fetched, res>>
    /\ UNCHANGED conversationVars

\* What the sources return in the specification of repeated builds: the
\* law L1 or nothing, the case C1 or nothing, the reference C1 -> L1 or
\* nothing; each fetch chooses anew.
RebuildLawLists == {s \in LawLists : \A i \in 1..Len(s) : s[i] = "L1"}
RebuildCaseLists == {s \in CaseLists : \A i \in 1..Len(s) : s[i] = "C1"}
RebuildRefLists ==
    {s \in RefLists :
        /\ Len(s) <= 1
        /\ \A i \in 1..Len(s) :
                /\ s[i].case_id = "C1"
                /\ s[i].referenced_law_id = "L1"
                /\ s[i].referenced_case_id = NoId}

NextRebuild ==
    \/ \E t \in SeqTasks : CallUnbuilt(t, BuildCall)
    \/ \E t \in SeqTasks : CallRebuild(t)
    \/ \E t \in SeqTasks, laws \in RebuildLawLists : FetchLaws(t, laws)
    \/ \E t \in SeqTasks, cases \in RebuildCaseLists : FetchCases(t, cases)
    \/ \E t \in SeqTasks, refs \in RebuildRefLists : FetchRefs(t, refs)
    \/ \E t \in SeqTasks : FetchFails(t)
    \/ \E t \in SeqTasks : Return(t)

SpecRebuild == Init /\ [][NextRebuild]_vars

\* --------------------------------------------- asking the same twice

\* Two callers share the analyzer and call find_related_cases one after
\* another, each keeping what it got: the first call builds the graph, and a
\* call on the built graph has no await, so no two calls overlap.
\* The sources return both laws, both cases and two or three references,
\* each of a case to a law.
RepeatLawLists == {s \in LawLists : Len(s) = Cardinality(LawIds)}
RepeatCaseLists == {s \in CaseLists : Len(s) = Cardinality(CaseIds)}
RepeatRefLists ==
    {s \in RefLists :
        /\ Len(s) \in 2..3
        /\ \A i \in 1..Len(s) :
                /\ s[i].referenced_law_id # NoId
                /\ s[i].referenced_case_id = NoId}

NextRepeat ==
    \/ \E t \in SeqTasks, c \in FindCalls : CallUnbuilt(t, c)
    \/ \E t \in SeqTasks, laws \in RepeatLawLists : FetchLaws(t, laws)
    \/ \E t \in SeqTasks, cases \in RepeatCaseLists : FetchCases(t, cases)
    \/ \E t \in SeqTasks, refs \in RepeatRefLists : FetchRefs(t, refs)
    \/ \E t \in AllTasks, c \in FindCalls : CallBuilt(t, c)
    \/ \E t \in AllTasks : Return(t)

SpecRepeat == Init /\ [][NextRepeat]_vars

\* ------------------------------------------- two requests, one analyzer

\* Two tasks hold the same analyzer and call its read operations with no
\* order between them: a task suspended at one of the three awaits of
\* build_citation_graph lets the other run.  The sources return what they
\* return in the specification of repeated builds.
ConcurrentCalls ==
    {c \in ReadCalls :
        \/ c.op = "find" /\ c.law_id = "L1"
        \/ c.op = "cited" /\ c.limit = 1
        \/ c.op = "ego" /\ c.center_type = "law" /\ c.center_id = "L1"
                        /\ c.depth = 1}

NextConcurrent ==
    \/ \E t \in AllTasks, c \in ConcurrentCalls : CallBuilt(t, c)
    \/ \E t \in AllTasks, c \in ConcurrentCalls : CallUnbuilt(t, c)
    \/ \E t \in AllTasks, laws \in RebuildLawLists : FetchLaws(t, laws)
    \/ \E t \in AllTasks, cases \in RebuildCaseLists : FetchCases(t, cases)
    \/ \E t \in AllTasks, refs \in RebuildRefLists : FetchRefs(t, refs)
    \/ \E t \in AllTasks : FetchFails(t)
    \/ \E t \in AllTasks : Return(t)

SpecConcurrent == Init /\ [][NextConcurrent]_vars

\* ------------------------------------------- the visualize endpoint

\* GET /api/v1/analytics/visualize/{type}/{id}?depth=..: the path and query
\* values of a request, as the call the handler makes of them.
EndpointTypes == {"law", "case", "statute"}
EndpointCalls ==
    {[op |-> "ego", center_type |-> ty, center_id |-> id, depth |-> d] :
        ty \in EndpointTypes, id \in {"L1", "C1"}, d \in Depths}

HttpError(status, detail) ==
    [kind |-> "http", status |-> status, detail |-> detail]

EndpointResponseAlwaysOk(graph_data) ==
    IF graph_data.kind = "raise" THEN graph_data
    ELSE [kind |-> "http", status |-> 200, body |-> graph_data]

\* The handler from `if "error" in graph_data` on; an exception of the
\* analyzer is not caught and passes through.
EndpointResponse(graph_data) ==
    IF graph_data.kind = "raise" THEN graph_data
    ELSE IF graph_data.error THEN HttpError(404, "Node not found")
    ELSE [kind |-> "http", status |-> 200, body |-> graph_data]

\* The handler for a type that is neither "law" nor "case": it raises
\* HTTPException(400) at once.
VisualizeEndpointRejects(t, c) ==
    /\ pc[t] = "idle"
    /\ c.center_type \notin {"law", "case"}
    /\ res' = [res EXCEPT ![t] = HttpError(400, "type must be 'law' or 'case'")]
    /\ pc' = [pc EXCEPT ![t] = "done"]
    /\ call' = [call EXCEPT ![t] = c]
    /\ UNCHANGED <<graph, built, hashOrder, failed, tLaws, tCases, tRefs, fetched>>
    /\ UNCHANGED conversationVars

\* The handler for a valid type: `analyzer = RelationshipAnalyzer()` is a
\* new analyzer with an empty graph, and visualize_relationships on it runs
\* up to `await _get_all_laws()`.
VisualizeEndpointCalls(t, c) ==
    /\ pc[t] = "idle"
    /\ c.center_type \in {"law", "case"}
    /\ graph' = EmptyGraph
    /\ built' = FALSE
    /\ failed' = FALSE
    /\ pc' = [pc EXCEPT ![t] = "laws"]
    /\ call' = [call EXCEPT ![t] = c]
    /\ UNCHANGED <<hashOrder, tLaws, tCases, tRefs, fetched, res>>
    /\ UNCHANGED conversationVars

\* The last fetch of the handler's analyzer returns: the build ends,
\* visualize_relationships returns and the handler answers, with no await
\* on the way.
VisualizeEndpointAnswers(t, refs) ==
    /\ pc[t] = "refs"
    /\ tRefs' = [tRefs EXCEPT ![t] = refs]
    /\ fetched' = [fetched EXCEPT ![t] = 3]
    /\ graph' = PopulateGraph(graph, tLaws[t], tCases[t], refs)
    /\ built' = TRUE
    /\ failed' = FALSE
    /\ res' = [res EXCEPT ![t] =
                EndpointResponse(Compute(graph', call[t], hashOrder, FALSE))]
    /\ pc' = [pc EXCEPT ![t] = "done"]
    /\ UNCHANGED <<hashOrder, call, tLaws, tCases>>
    /\ UNCHANGED conversationVars

NextEndpoint ==
    \/ \E t \in SeqTasks, c \in EndpointCalls : VisualizeEndpointRejects(t, c)
    \/ \E t \in SeqTasks, c \in EndpointCalls : VisualizeEndpointCalls(t, c)
    \/ \E t \in SeqTasks, laws \in RebuildLawLists : FetchLaws(t, laws)
    \/ \E t \in SeqTasks, cases \in RebuildCaseLists : FetchCases(t, cases)
    \/ \E t \in SeqTasks, refs \in RebuildRefLists :
            VisualizeEndpointAnswers(t, refs)
    \/ \E t \in SeqTasks : FetchFails(t)
    \/ \E t \in SeqTasks : Return(t)

SpecEndpoint == Init /\ [][NextEndpoint]_vars

\* ------------------------------------------- the conversation service

\* One ConversationService (the conversation endpoints share a module-level
\* instance) called by two tasks.  An entry of a history is its role and its
\* content; the timestamps and the references of an entry, and the search
\* results and prompts they come from, are not modelled.
UserEntry(question) == [role |-> "user", content |-> question]
AssistantEntry(answer) == [role |-> "assistant", content |-> answer]

AnalyzerVars ==
    <<graph, built, hashOrder, failed, tLaws, tCases, tRefs, fetched>>

InvalidConversationId == Raise("ValueError: Invalid conversation_id")

\* The tasks suspended in ask_question on conversation id.
Asking(id) ==
    {u \in AllTasks :
        /\ pc[u] \in {"search", "generate"}
        /\ call[u].conversation_id = id}

\* The ask_question calls that have returned or are on their way.
AsksLetThrough ==
    Len(asked)
    + Cardinality({u \in AllTasks : pc[u] \in {"search", "generate"}})

\* The clock reaches the next second.
Tick ==
    /\ clock < MaxClock
    /\ clock' = clock + 1
    /\ UNCHANGED <<pc, call, res, conversations, detached, asked>>
    /\ UNCHANGED AnalyzerVars

\* start_conversation: no await, one step.  `self.conversations[id] = []`
\* puts a new list under the id; a task whose `history` names the list that
\* was there keeps that list.
StartConversation(t, user_id) ==
    LET conversation_id == ConversationId(user_id, clock)
    IN  /\ pc[t] = "idle"
        /\ conversations' =
                [k \in DOMAIN conversations \cup {conversation_id} |->
                    IF k = conversation_id THEN <<>> ELSE conversations[k]]
        /\ detached' =
                [u \in AllTasks |->
                    detached[u] \/ u \in Asking(conversation_id)]
        /\ res' = [res EXCEPT ![t] = [kind |-> "id", id |-> conversation_id]]
        /\ pc' = [pc EXCEPT ![t] = "done"]
        /\ call' = [call EXCEPT ![t] = [op |-> "start", user_id |-> user_id]]
        /\ UNCHANGED <<clock, asked>>
        /\ UNCHANGED AnalyzerVars

AskQuestionCreating(t, conversation_id, question) ==
    /\ pc[t] = "idle"
    /\ AsksLetThrough < MaxAsks
    /\ conversations' =
            [k \in DOMAIN conversations \cup {conversation_id} |->
                IF k \in DOMAIN conversations THEN conversations[k] ELSE <<>>]
    /\ pc' = [pc EXCEPT ![t] = "search"]
    /\ call' = [call EXCEPT ![t] =
                    [op |-> "ask", conversation_id |-> conversation_id,
                     question |-> question]]
    /\ UNCHANGED <<res, clock, detached, asked>>
    /\ UNCHANGED AnalyzerVars

\* ask_question up to `await self.rag.search_with_context(..)`: the id
\* check, and `history` bound to the list the map holds.  (No more than
\* MaxAsks calls are let through.)
AskQuestion(t, conversation_id, question) ==
    /\ pc[t] = "idle"
    /\ AsksLetThrough < MaxAsks
    /\ IF conversation_id \notin DOMAIN conversations
       THEN /\ res' = [res EXCEPT ![t] = InvalidConversationId]
            /\ pc' = [pc EXCEPT ![t] = "done"]
       ELSE /\ pc' = [pc EXCEPT ![t] = "search"]
            /\ UNCHANGED res
    /\ call' = [call EXCEPT ![t] =
                    [op |-> "ask", conversation_id |-> conversation_id,
                     question |-> question]]
    /\ UNCHANGED <<conversations, clock, detached, asked>>
    /\ UNCHANGED AnalyzerVars

SearchReturnsAppendingQuestion(t) ==
    /\ pc[t] = "search"
    /\ pc' = [pc EXCEPT ![t] = "generate"]
    /\ conversations' =
            IF detached[t] THEN conversations
            ELSE [conversations EXCEPT ![call[t].conversation_id] =
                    Append(@, UserEntry(call[t].question))]
    /\ UNCHANGED <<call, res, clock, detached, asked>>
    /\ UNCHANGED AnalyzerVars

\* The search returns; ask_question runs up to
\* `await self.rag.generate_answer(..)`.
SearchReturns(t) ==
    /\ pc[t] = "search"
    /\ pc' = [pc EXCEPT ![t] = "generate"]
    /\ UNCHANGED <<call, res, conversations, clock, detached, asked>>
    /\ UNCHANGED AnalyzerVars

\* The answer is there: the two `history.append` and the return, no await
\* between them.  The appends go to the list `history` names.
GenerateReturns(t) ==
    LET c == call[t]
        answer == AnswerTo(c.question)
    IN  /\ pc[t] = "generate"
        /\ conversations' =
                IF detached[t] THEN conversations
                ELSE [conversations EXCEPT ![c.conversation_id] =
                        @ \o <<UserEntry(c.question), AssistantEntry(answer)>>]
        /\ asked' = Append(asked, [conversation_id |-> c.conversation_id,
                                   question |-> c.question,
                                   answer |-> answer])
        /\ res' = [res EXCEPT ![t] =
                    [kind |-> "answer", conversation_id |-> c.conversation_id,
                     question |-> c.question, answer |-> answer]]
        /\ pc' = [pc EXCEPT ![t] = "done"]
        /\ detached' = [detached EXCEPT ![t] = FALSE]
        /\ UNCHANGED <<call, clock>>
        /\ UNCHANGED AnalyzerVars

\* The search or the generation raises: ask_question catches nothing.
AskFails(t) ==
    /\ pc[t] \in {"search", "generate"}
    /\ res' = [res EXCEPT ![t] = Raise("RagError")]
    /\ pc' = [pc EXCEPT ![t] = "done"]
    /\ detached' = [detached EXCEPT ![t] = FALSE]
    /\ UNCHANGED <<call, conversations, clock, asked>>
    /\ UNCHANGED AnalyzerVars

\* get_conversation_history: not a coroutine, one step.
GetConversationHistory(t, conversation_id) ==
    /\ pc[t] = "idle"
    /\ res' = [res EXCEPT ![t] =
                IF conversation_id \notin DOMAIN conversations
                THEN InvalidConversationId
                ELSE [kind |-> "history",
                      list |-> conversations[conversation_id]]]
    /\ pc' = [pc EXCEPT ![t] = "done"]
    /\ call' = [call EXCEPT ![t] =
                    [op |-> "history", conversation_id |-> conversation_id]]
    /\ UNCHANGED <<conversations, clock, detached, asked>>
    /\ UNCHANGED AnalyzerVars

NextConversation ==
    \/ Tick
    \/ \E t \in AllTasks, u \in UserIds : StartConversation(t, u)
    \/ \E t \in AllTasks, id \in ConversationIds, q \in Questions :
            AskQuestion(t, id, q)
    \/ \E t \in AllTasks : SearchReturns(t)
    \/ \E t \in AllTasks : GenerateReturns(t)
    \/ \E t \in AllTasks : AskFails(t)
    \/ \E t \in AllTasks, id \in ConversationIds :
            GetConversationHistory(t, id)
    \/ \E t \in AllTasks : Return(t)

SpecConversation == Init /\ [][NextConversation]_vars

\* -------------------------------------------------------- properties

Range(s) == {s[i] : i \in 1..Len(s)}

\* Task t's operation op has run to its end.
Completed(t, op) == pc[t] = "done" /\ call[t].op = op

\* Task t's operation built the graph on its way.
DidBuild(t) == pc[t] = "done" /\ fetched[t] = 3

\* The nodes within `radius` edge traversals of `center`, direction ignored.
UndirectedBall(g, center, radius) ==
    LET reach[k \in 0..radius] ==
            IF k = 0 THEN {center}
            ELSE reach[k - 1]
                 \cup UNION {Successors(g, n) \cup Predecessors(g, n) :
                             n \in reach[k - 1]}
    IN  reach[radius]

\* C1: the node list of an ego view of a center present in the graph is
\* exactly the set of nodes within `depth` edge traversals of the center,
\* edge direction ignored.
C1_EgoViewIsUndirectedNeighbourhood ==
    \A t \in SeqTasks :
        (Completed(t, "ego") /\ res[t].kind = "ego" /\ ~res[t].error) =>
            {res[t].nodes[i].id : i \in 1..Len(res[t].nodes)}
                = UndirectedBall(graph, res[t].center, call[t].depth)

\* C2: the graph build_citation_graph returns has exactly N + M nodes for
\* the N laws and M cases fetched, whatever the references name.
C2_NodeCountIsLawsPlusCases ==
    \A t \in SeqTasks :
        (Completed(t, "build") /\ res[t].kind = "graph") =>
            Len(res[t].graph.nodes) = Len(tLaws[t]) + Len(tCases[t])

\* The cases that have at least one reference record naming law_id.
CitingCases(refs, law_id) ==
    {r.case_id : r \in {x \in Range(refs) : x.referenced_law_id = law_id}}

\* C3: every entry of a get_most_cited_laws result carries as
\* citation_count the number of distinct cases with at least one reference
\* record naming that law.
C3_CitationCountIsDistinctCitingCases ==
    \A t \in SeqTasks :
        (DidBuild(t) /\ call[t].op = "cited" /\ res[t].kind = "cited") =>
            \A i \in 1..Len(res[t].list) :
                res[t].list[i].citation_count
                    = Cardinality(CitingCases(tRefs[t], res[t].list[i].law_id))

\* A law's count is 1 although two reference records of one case name it.
C3_Witness ==
    \E t \in SeqTasks :
        /\ DidBuild(t) /\ call[t].op = "cited" /\ res[t].kind = "cited"
        /\ \E i \in 1..Len(res[t].list), j, k \in 1..Len(tRefs[t]) :
            /\ j # k
            /\ tRefs[t][j].case_id = tRefs[t][k].case_id
            /\ tRefs[t][j].referenced_law_id = res[t].list[i].law_id
            /\ tRefs[t][k].referenced_law_id = res[t].list[i].law_id
            /\ res[t].list[i].citation_count = 1

HasEdge(g, u, v) == \E e \in g.edges : e.src = u /\ e.tgt = v

\* D: the nodes with a citation edge to the law.
DirectSet(g, law_node) == {c \in NodeSet(g) : HasEdge(g, c, law_node)}

\* I: the nodes that cite a law other than law_node which a node of D
\* cites too, D excluded.
IndirectSet(g, law_node) ==
    {c \in NodeSet(g) :
        \E d \in DirectSet(g, law_node), l \in NodeSet(g) :
            /\ IsLawNode(l) /\ l # law_node
            /\ HasEdge(g, d, l) /\ HasEdge(g, c, l)}
    \ DirectSet(g, law_node)

\* C4: for a law in the graph, the cases find_related_cases returns are
\* exactly D \cup I, each flagged direct iff it is in D.
C4_RelatedCasesAreDirectAndCoCiting ==
    \A t \in SeqTasks :
        (Completed(t, "find") /\ res[t].kind = "related"
         /\ HasNode(graph, LawNode(call[t].law_id))) =>
            LET L == LawNode(call[t].law_id)
                list == res[t].list
            IN  /\ {CaseNode(list[i].case_id) : i \in 1..Len(list)}
                        = DirectSet(graph, L) \cup IndirectSet(graph, L)
                /\ \A i \in 1..Len(list) :
                        list[i].is_direct_citation
                            <=> CaseNode(list[i].case_id) \in DirectSet(graph, L)

\* A result that lists a direct case and a co-citing (indirect) case.
C4_Witness ==
    \E t \in SeqTasks :
        /\ Completed(t, "find") /\ res[t].kind = "related"
        /\ \E i, j \in 1..Len(res[t].list) :
                res[t].list[i].is_direct_citation
                /\ ~res[t].list[j].is_direct_citation

\* C5: a direct entry scores exactly 1.0, an indirect one within [0, 1].
C5_ScoresInRange ==
    \A t \in SeqTasks :
        (Completed(t, "find") /\ res[t].kind = "related") =>
            \A i \in 1..Len(res[t].list) :
                LET e == res[t].list[i]
                IN  IF e.is_direct_citation THEN e.relevance_score = Scale
                    ELSE 0 <= e.relevance_score /\ e.relevance_score <= Scale

\* A direct entry beside an indirect one scored by PageRank.
C5_Witness ==
    \E t \in SeqTasks :
        /\ Completed(t, "find") /\ res[t].kind = "related"
        /\ \E i, j \in 1..Len(res[t].list) :
            /\ res[t].list[i].is_direct_citation
            /\ ~res[t].list[j].is_direct_citation
            /\ res[t].list[j].relevance_score # Scale \div 2
            /\ res[t].list[j].relevance_score > 0

\* C6: the list find_related_cases returns is ordered by relevance_score,
\* non-increasing.
C6_RelatedSortedByScore ==
    \A t \in SeqTasks :
        (Completed(t, "find") /\ res[t].kind = "related") =>
            \A i \in 1..Len(res[t].list) - 1 :
                res[t].list[i].relevance_score
                    >= res[t].list[i + 1].relevance_score

\* Two entries of different score, the one iterated later ranked first.
C6_Witness ==
    \E t \in SeqTasks :
        /\ Completed(t, "find") /\ res[t].kind = "related"
        /\ Len(res[t].list) = 2
        /\ res[t].list[1].relevance_score > res[t].list[2].relevance_score
        /\ hashOrder = <<CaseNode(res[t].list[2].case_id),
                         CaseNode(res[t].list[1].case_id)>>

\* C7: the list get_most_cited_laws(limit) returns is sorted by
\* citation_count, non-increasing, and no longer than limit.
C7_MostCitedSortedAndBounded ==
    \A t \in SeqTasks :
        (Completed(t, "cited") /\ res[t].kind = "cited") =>
            /\ Len(res[t].list) <= call[t].limit
            /\ \A i \in 1..Len(res[t].list) - 1 :
                    res[t].list[i].citation_count
                        >= res[t].list[i + 1].citation_count

\* Two laws, limit 1: the one listed is the more cited, added second.
C7_Witness ==
    \E t \in SeqTasks :
        /\ Completed(t, "cited") /\ res[t].kind = "cited"
        /\ call[t].limit = 1 /\ Len(res[t].list) = 1
        /\ Len(SelectSeq(graph.nodes, IsLawNode)) = 2
        /\ res[t].list[1].citation_count > 0
        /\ LawNode(res[t].list[1].law_id) # SelectSeq(graph.nodes, IsLawNode)[1]

\* C8: find_related_cases for a law id that is no node of the built graph
\* returns the empty list, raises nothing and leaves the graph and the
\* built flag as they were.
C8_UnknownLawYieldsEmptyList ==
    [][\A t \in SeqTasks :
        (/\ built /\ pc[t] = "idle" /\ pc'[t] = "done"
         /\ call'[t].op = "find"
         /\ ~HasNode(graph, LawNode(call'[t].law_id))) =>
            /\ res'[t] = [kind |-> "related", list |-> <<>>]
            /\ graph' = graph
            /\ built' = built]_vars

\* Such a call has returned: the graph is built, non-empty, and lacks the law.
C8_Witness ==
    \E t \in SeqTasks :
        /\ Completed(t, "find") /\ fetched[t] = 0 /\ built
        /\ Len(graph.nodes) > 0
        /\ ~HasNode(graph, LawNode(call[t].law_id))
        /\ res[t] = [kind |-> "related", list |-> <<>>]

\* C9: on a built graph visualize_relationships returns the payload with
\* the error marker iff the center node is absent; a payload with the
\* marker has no nodes and no edges, one without it has nodes.
C9_ErrorMarkerIffCenterAbsent ==
    \A t \in SeqTasks :
        (Completed(t, "ego") /\ built) =>
            LET center == <<call[t].center_type, call[t].center_id>>
                marked == res[t].kind = "ego" /\ res[t].error
            IN  /\ marked <=> ~HasNode(graph, center)
                /\ marked => res[t].nodes = <<>> /\ res[t].edges = {}
                /\ (res[t].kind = "ego" /\ ~res[t].error) =>
                        Len(res[t].nodes) > 0

\* A center that exists and has no neighbour: no marker, one node.
C9_Witness ==
    \E t \in SeqTasks :
        /\ Completed(t, "ego") /\ built
        /\ res[t].kind = "ego" /\ ~res[t].error
        /\ Len(res[t].nodes) = 1
        /\ Len(graph.nodes) > 1

\* C10: when a source fetch of a build fails, the operation raises the
\* failure, the graph holds no node and no edge, and the built flag is
\* still false.
C10_FailedBuildLeavesNothing ==
    \A t \in SeqTasks :
        (pc[t] = "done" /\ res[t] = Raise("SourceError")) =>
            /\ graph = EmptyGraph
            /\ ~built

\* The references fetch failed after laws and cases had been fetched.
C10_Witness ==
    \E t \in SeqTasks :
        /\ pc[t] = "done" /\ res[t] = Raise("SourceError")
        /\ fetched[t] = 2
        /\ Len(tLaws[t]) > 0 /\ Len(tCases[t]) > 0

\* An operation of task t is between its first and its last fetch.
Fetching(t) == pc[t] \in {"laws", "cases", "refs"}

\* C11 as stated: in a sequence of read operations only the first fetches.
\* An operation that awaits its first fetch when a fetch has raised on this
\* analyzer before is not the first of the sequence: the fetch that raised
\* belongs to an earlier operation.
C11_OnlyFirstCallFetches ==
    \A t \in SeqTasks :
        (pc[t] = "laws" /\ call[t] \in ReadCalls) => ~failed

\* C11, amended: once an operation has built the graph, every later read
\* operation performs no fetch, leaves the flag set and computes its result
\* on the graph as built; an operation fetches only when it finds the graph
\* unbuilt.
C11_NoFetchOnceBuilt ==
    [][\A t \in SeqTasks :
        /\ (built /\ pc[t] = "idle" /\ pc'[t] # "idle") =>
                /\ pc'[t] = "done"
                /\ fetched'[t] = 0
                /\ built'
                /\ \E prRaises \in BOOLEAN :
                        res'[t] = Compute(graph, call'[t], hashOrder', prRaises)
        /\ (pc[t] = "idle" /\ Fetching(t)') => ~built]_vars

\* A visualize call answered from the graph an earlier call built.
C11_Witness ==
    \E t \in SeqTasks :
        /\ Completed(t, "ego") /\ fetched[t] = 0 /\ built
        /\ res[t].kind = "ego" /\ Len(res[t].nodes) > 1

\* C12: in a built graph the source of every edge is a node added from a
\* case entity (it carries type = "case", name and data).
C12_EdgeSourcesAreCaseNodes ==
    built =>
        \A e \in graph.edges : e.src \in graph.typed /\ e.src[1] = "case"

\* C13: once the graph is built, no read operation changes its nodes, its
\* edges or their attributes.
C13_ReadsLeaveGraphUnchanged ==
    [][built => graph' = graph]_vars

\* A related-cases query, answered on a built graph that has edges, for a
\* law the graph does not hold.
C13_Witness ==
    \E t \in SeqTasks :
        /\ Completed(t, "find") /\ fetched[t] = 0 /\ built
        /\ graph.edges # {}
        /\ ~HasNode(graph, LawNode(call[t].law_id))

\* C14: after build_citation_graph has run again on a built analyzer, the
\* graph holds exactly the nodes and edges derived from the data that build
\* fetched.
C14_RebuildReplacesGraph ==
    \A t \in SeqTasks :
        (DidBuild(t) /\ call[t].op = "build") =>
            LET fresh == PopulateGraph(EmptyGraph, tLaws[t], tCases[t], tRefs[t])
            IN  /\ NodeSet(graph) = NodeSet(fresh)
                /\ graph.edges = fresh.edges

\* C15: when nx.pagerank raises while an indirect case is scored, the
\* call returns as it would have otherwise, with 0.5 for every indirect
\* entry and 1.0 for every direct one; the only exception a
\* find_related_cases call raises once the graph is built is the KeyError
\* of a node without attributes, never the failure of PageRank.
C15_PageRankFailureFallsBack ==
    \A t \in SeqTasks :
        (Completed(t, "find") /\ built) =>
            /\ (res[t].kind = "related"
                /\ res[t] = FindRelatedCases(graph, call[t].law_id,
                                             hashOrder, TRUE)) =>
                    \A i \in 1..Len(res[t].list) :
                        res[t].list[i].relevance_score
                            = IF res[t].list[i].is_direct_citation
                              THEN Scale ELSE Scale \div 2
            /\ res[t].kind = "raise" =>
                    /\ res[t].exc = "KeyError"
                    /\ NodeSet(graph) # graph.typed

\* PageRank raised: a direct entry at 1.0 beside an indirect one at 0.5.
C15_Witness ==
    \E t \in SeqTasks :
        /\ Completed(t, "find") /\ res[t].kind = "related"
        /\ res[t] = FindRelatedCases(graph, call[t].law_id, hashOrder, TRUE)
        /\ \E i, j \in 1..Len(res[t].list) :
            /\ res[t].list[i].is_direct_citation
            /\ res[t].list[i].relevance_score = Scale
            /\ ~res[t].list[j].is_direct_citation
            /\ res[t].list[j].relevance_score = Scale \div 2

\* The edges (source, target, type) the reference records stand for.
RefEdges(refs) ==
    {<<CaseNode(r.case_id), LawNode(r.referenced_law_id), "cites_law">> :
        r \in {x \in Range(refs) : x.referenced_law_id # NoId}}
    \cup
    {<<CaseNode(r.case_id), CaseNode(r.referenced_case_id), "cites_case">> :
        r \in {x \in Range(refs) : x.referenced_case_id # NoId}}

\* C16: a build turns a record with both ids into its cites_law and its
\* cites_case edge, a record with one id into that one edge, and a record
\* with neither id into nothing: the edges are exactly those of the
\* records, and the nodes are the fetched entities and the edges' endpoints.
C16_RecordsBecomeEdges ==
    \A t \in SeqTasks :
        DidBuild(t) =>
            /\ {<<e.src, e.tgt, e.type>> : e \in graph.edges} = RefEdges(tRefs[t])
            /\ NodeSet(graph)
                    = {LawNode(id) : id \in Range(tLaws[t])}
                      \cup {CaseNode(id) : id \in Range(tCases[t])}
                      \cup {e[1] : e \in RefEdges(tRefs[t])}
                      \cup {e[2] : e \in RefEdges(tRefs[t])}

\* A build from a record with both ids and a record with neither: two
\* edges, and only the nodes of the entities.
C16_Witness ==
    \E t \in SeqTasks :
        /\ DidBuild(t)
        /\ \E i, j \in 1..Len(tRefs[t]) :
            /\ tRefs[t][i].referenced_law_id # NoId
            /\ tRefs[t][i].referenced_case_id # NoId
            /\ tRefs[t][j].referenced_law_id = NoId
            /\ tRefs[t][j].referenced_case_id = NoId
        /\ Cardinality(graph.edges) = 2
        /\ Len(graph.nodes) = Len(tLaws[t]) + Len(tCases[t])

\* C17: the edges of an ego view of a center present in the graph are
\* exactly the graph edges with both endpoints in the view's node list, each
\* with the type and the context of the graph edge.
C17_EgoEdgesAreInduced ==
    \A t \in SeqTasks :
        (Completed(t, "ego") /\ res[t].kind = "ego" /\ ~res[t].error) =>
            LET ids == {res[t].nodes[i].id : i \in 1..Len(res[t].nodes)}
            IN  res[t].edges
                    = {[source |-> e.src, target |-> e.tgt,
                        type |-> e.type, context |-> e.context] :
                       e \in {x \in graph.edges : x.src \in ids /\ x.tgt \in ids}}

\* A view of depth 1 with an edge between two neighbours of the center.
C17_Witness ==
    \E t \in SeqTasks :
        /\ Completed(t, "ego") /\ res[t].kind = "ego" /\ ~res[t].error
        /\ call[t].depth = 1
        /\ \E e \in res[t].edges :
                e.source # res[t].center /\ e.target # res[t].center

Min(a, b) == IF a < b THEN a ELSE b

\* C18: get_most_cited_laws(limit) returns min(limit, number of law nodes)
\* entries; when the laws are no more than limit, each law appears exactly
\* once, the laws no case cites included.
C18_MostCitedLength ==
    \A t \in SeqTasks :
        (Completed(t, "cited") /\ res[t].kind = "cited") =>
            LET law_nodes == {n \in NodeSet(graph) : IsLawNode(n)}
                list == res[t].list
            IN  /\ Len(list) = Min(call[t].limit, Cardinality(law_nodes))
                /\ Cardinality(law_nodes) <= call[t].limit =>
                        \A n \in law_nodes :
                            Cardinality({i \in 1..Len(list) :
                                            list[i].law_id = n[2]}) = 1

\* Limit 2 and a single law, which no case cites: one entry, count 0.
C18_Witness ==
    \E t \in SeqTasks :
        /\ Completed(t, "cited") /\ res[t].kind = "cited"
        /\ call[t].limit = 2
        /\ Len(res[t].list) = 1
        /\ res[t].list[1].citation_count = 0
        /\ graph.edges # {}

\* The place of x in the list s.
Pos(s, x) == CHOOSE i \in 1..Len(s) : s[i] = x

\* C19: two laws with equal citation_count appear in a get_most_cited_laws
\* result in the order in which their nodes were added to the graph, which
\* is the order of the law list the build fetched.
C19_TiesKeepInsertionOrder ==
    \A t \in SeqTasks :
        (Completed(t, "cited") /\ res[t].kind = "cited") =>
            \A i, j \in 1..Len(res[t].list) :
                (i < j /\ res[t].list[i].citation_count
                            = res[t].list[j].citation_count) =>
                    /\ Pos(graph.nodes, LawNode(res[t].list[i].law_id))
                            < Pos(graph.nodes, LawNode(res[t].list[j].law_id))
                    /\ DidBuild(t) =>
                            Pos(tLaws[t], res[t].list[i].law_id)
                                < Pos(tLaws[t], res[t].list[j].law_id)

\* Two laws cited once each, fetched and listed as L2, L1.
C19_Witness ==
    \E t \in SeqTasks :
        /\ Completed(t, "cited") /\ res[t].kind = "cited" /\ DidBuild(t)
        /\ tLaws[t] = <<"L2", "L1">>
        /\ Len(res[t].list) = 2
        /\ res[t].list[1].law_id = "L2"
        /\ res[t].list[1].citation_count = 1
        /\ res[t].list[2].citation_count = 1

\* Task t's find_related_cases returned what the code computes on the
\* graph when nx.pagerank raises (pr) or does not (~pr).
ReturnedWith(t, pr) ==
    res[t] = FindRelatedCases(graph, call[t].law_id, hashOrder, pr)

C21_ExactlyOneCenter ==
    \A t \in SeqTasks :
        (Completed(t, "ego") /\ res[t].kind = "ego" /\ ~res[t].error) =>
            /\ Cardinality({i \in 1..Len(res[t].nodes) :
                                res[t].nodes[i].is_center}) = 1
            /\ \A i \in 1..Len(res[t].nodes) :
                    res[t].nodes[i].is_center
                        <=> res[t].nodes[i].id = res[t].center

\* A view of three nodes whose center is not the first of the list.
C21_Witness ==
    \E t \in SeqTasks :
        /\ Completed(t, "ego") /\ res[t].kind = "ego" /\ ~res[t].error
        /\ Len(res[t].nodes) = 3
        /\ ~res[t].nodes[1].is_center

\* C27: on a graph built from any lists of laws, cases and references, the
\* three read operations return a result and raise nothing.
C27_ReadsNeverRaise ==
    \A t \in SeqTasks :
        (pc[t] = "done" /\ built /\ call[t] \in ReadCalls) =>
            res[t].kind # "raise"

\* C28: in a list find_related_cases returns, every direct entry comes
\* before every indirect one, and every indirect score is below 1.0.
C28_DirectBeforeIndirect ==
    \A t \in SeqTasks :
        (Completed(t, "find") /\ res[t].kind = "related") =>
            \A i, j \in 1..Len(res[t].list) :
                (res[t].list[i].is_direct_citation
                 /\ ~res[t].list[j].is_direct_citation) =>
                    /\ i < j
                    /\ res[t].list[j].relevance_score < Scale

\* The indirect case was iterated first and is listed last.
C28_Witness ==
    \E t \in SeqTasks :
        /\ Completed(t, "find") /\ res[t].kind = "related"
        /\ Len(res[t].list) = 2
        /\ res[t].list[1].is_direct_citation
        /\ ~res[t].list[2].is_direct_citation
        /\ hashOrder[1] = CaseNode(res[t].list[2].case_id)

\* C25: two read operations started together on an analyzer whose graph is
\* not built fetch each source once between them: no two tasks have both
\* fetched.
C25_OneBuildForConcurrentReads ==
    \A t, u \in AllTasks :
        t # u => ~(fetched[t] >= 1 /\ fetched[u] >= 1)

\* The result of task t's operation was computed from the graph.
FromGraph(r) == r.kind # "none" /\ r # Raise("SourceError")

\* C26: the graph and the built flag change only in the step that puts a
\* whole build (all its nodes, all its edges) into the graph and sets the
\* flag, and a result is computed only from the graph of a state whose flag
\* is set; so no result is computed from a part of a build.
C26_NoReadOfPartialGraph ==
    [][/\ (graph' # graph \/ built' # built) =>
            \E t \in AllTasks :
                /\ pc[t] = "refs"
                /\ graph' = PopulateGraph(graph, tLaws[t], tCases[t], tRefs'[t])
                /\ built'
       /\ \A t \in AllTasks :
            (res'[t] # res[t] /\ FromGraph(res'[t])) =>
                /\ built'
                /\ \E prRaises \in BOOLEAN :
                        res'[t] = Compute(graph', call'[t], hashOrder', prRaises)]_vars

\* One task has its result from the built graph while the other is in the
\* middle of a build of its own.
C26_Witness ==
    \E t, u \in AllTasks :
        /\ pc[t] = "done" /\ fetched[t] = 0 /\ FromGraph(res[t])
        /\ res[t].kind = "related" /\ Len(res[t].list) = 1
        /\ pc[u] = "refs"

\* C22: the visualize endpoint answers 400 for a type that is neither "law"
\* nor "case", in the step the request arrives and with no analyzer created
\* and nothing fetched; for a valid type it answers 404 exactly when the
\* analyzer's result carries the error marker, and otherwise answers with
\* that result.
C22_EndpointStatus ==
    [][\A t \in SeqTasks :
        /\ (pc[t] = "idle" /\ pc'[t] # "idle"
            /\ call'[t].center_type \notin {"law", "case"}) =>
                /\ pc'[t] = "done"
                /\ res'[t].kind = "http" /\ res'[t].status = 400
                /\ graph' = graph /\ built' = built /\ fetched'[t] = 0
        /\ (pc[t] = "refs" /\ pc'[t] = "done" /\ res'[t].kind = "http") =>
                LET c == call[t]
                    r == VisualizeRelationships(graph', c.center_type,
                                                c.center_id, c.depth)
                IN  /\ c.center_type \in {"law", "case"}
                    /\ res'[t].status = 404 <=> r.error
                    /\ ~r.error => (res'[t].status = 200 /\ res'[t].body = r)]_vars

\* A request with an invalid type was answered 400 while the analyzer of
\* the request before it, graph built, is as that request left it.
C22_Witness ==
    \E t \in SeqTasks :
        /\ pc[t] = "done" /\ res[t].kind = "http" /\ res[t].status = 400
        /\ built /\ graph # EmptyGraph

\* C23: ask_question and get_conversation_history called with an id that
\* start_conversation never returned (no key of the map) raise
\* ValueError("Invalid conversation_id") at once and leave the map as it is.
C23_UnknownIdRaises ==
    [][\A t \in AllTasks :
        (/\ pc[t] = "idle" /\ pc'[t] # "idle"
         /\ call'[t].op \in {"ask", "history"}
         /\ call'[t].conversation_id \notin DOMAIN conversations) =>
            /\ pc'[t] = "done"
            /\ res'[t] = InvalidConversationId
            /\ conversations' = conversations]_vars

\* ask_question was refused for an id that is no key while another
\* conversation holds a question and its answer.
C23_Witness ==
    \E t \in AllTasks :
        /\ pc[t] = "done" /\ call[t].op = "ask"
        /\ res[t] = InvalidConversationId
        /\ call[t].conversation_id \notin DOMAIN conversations
        /\ \E id \in DOMAIN conversations : Len(conversations[id]) = 2

\* C24: the history of a conversation is, for the k ask_question calls
\* that returned on it, 2k entries long, and its entries 2i-1 and 2i are
\* the i-th returned call's question as user and its answer as assistant.
C24_HistoryIsCompletedQuestions ==
    \A id \in DOMAIN conversations :
        LET done == SelectSeq(asked, LAMBDA a : a.conversation_id = id)
        IN  /\ Len(conversations[id]) = 2 * Len(done)
            /\ \A i \in 1..Len(done) :
                    /\ conversations[id][2 * i - 1] = UserEntry(done[i].question)
                    /\ conversations[id][2 * i] = AssistantEntry(done[i].answer)

\* Every user entry of history h is followed by an assistant entry.
Paired(h) ==
    \A i \in 1..Len(h) :
        h[i].role = "user" => (i < Len(h) /\ h[i + 1].role = "assistant")

\* C29: a step in which ask_question raises after its id check leaves every
\* history as it was, and the history of its conversation holds no question
\* without its answer.
C29_FailedAskLeavesHistory ==
    [][\A t \in AllTasks :
        (/\ pc[t] \in {"search", "generate"}
         /\ pc'[t] = "done" /\ res'[t].kind = "raise") =>
            /\ conversations' = conversations
            /\ Paired(conversations'[call[t].conversation_id])]_vars

\* ask_question failed on a conversation that holds one question and its
\* answer.
C29_Witness ==
    \E t \in AllTasks :
        /\ pc[t] = "done" /\ call[t].op = "ask"
        /\ res[t] = Raise("RagError")
        /\ Len(conversations[call[t].conversation_id]) = 2

\* C30: the id start_conversation returns was no key of the map, and the
\* call leaves the history of every conversation as it was.
C30_StartOpensNewSession ==
    [][\A t \in AllTasks :
        (pc[t] = "idle" /\ pc'[t] = "done" /\ call'[t].op = "start") =>
            /\ res'[t].id \notin DOMAIN conversations
            /\ \A id \in DOMAIN conversations :
                    conversations'[id] = conversations[id]]_vars

====
